---------------------------- MODULE Spec2Model ----------------------------
(***************************************************************************)
(* A model of the INA228 MicroPython driver, src/ina228.py.                *)
(*                                                                         *)
(* The driver is a single-threaded register mapper: every public method    *)
(* issues one or two blocking transactions on an I2C transport and         *)
(* returns.  Each method is one action.  The transport is the environment: *)
(* what a read returns and whether a transaction raises a bus error are    *)
(* chosen by the action's \E.                                              *)
(*                                                                         *)
(* Python's numbers are modelled by what they are:                         *)
(*   - int is unbounded.  The model checker's integers are 32 bits wide,   *)
(*     so a value that may exceed 31 bits (a float's significand, a 40-bit *)
(*     accumulator) is a Big: a little-endian sequence of limbs in base    *)
(*     2^15 with no leading zero limb.                                     *)
(*   - float is a binary floating-point number [s, m, e] of value          *)
(*     s * m * 2^e, m a Big that is odd (or zero), every operation rounded *)
(*     to the build's significand width, round-to-nearest-even (IEEE 754). *)
(*     Exponent range is not modelled: no value of the driver comes near   *)
(*     overflow or the subnormals.                                         *)
(***************************************************************************)
EXTENDS Integers, Sequences, FiniteSets, TLC

(***************************************************************************)
(* Big: unbounded naturals.                                                *)
(***************************************************************************)
Limb == 2^15

LimbBits == CHOOSE k \in 1..30 : 2^k = Limb

RECURSIVE BigStrip(_)
BigStrip(a) ==
  IF a = <<>> THEN <<>>
  ELSE IF a[Len(a)] = 0 THEN BigStrip(SubSeq(a, 1, Len(a) - 1))
  ELSE a

RECURSIVE BigFromInt(_)
BigFromInt(n) ==
  IF n = 0 THEN <<>> ELSE <<n % Limb>> \o BigFromInt(n \div Limb)

RECURSIVE BigToInt(_)
BigToInt(a) ==
  IF a = <<>> THEN 0 ELSE Head(a) + Limb * BigToInt(Tail(a))

RECURSIVE BigAddC(_, _, _)
BigAddC(a, b, carry) ==
  IF a = <<>> /\ b = <<>>
  THEN (IF carry = 0 THEN <<>> ELSE <<carry>>)
  ELSE LET x == IF a = <<>> THEN 0 ELSE Head(a)
           y == IF b = <<>> THEN 0 ELSE Head(b)
           t == x + y + carry
       IN  <<t % Limb>> \o BigAddC(IF a = <<>> THEN <<>> ELSE Tail(a),
                                   IF b = <<>> THEN <<>> ELSE Tail(b),
                                   t \div Limb)

BigAdd(a, b) == BigStrip(BigAddC(a, b, 0))

RECURSIVE BigMulSmallC(_, _, _)
BigMulSmallC(a, k, carry) ==
  IF a = <<>>
  THEN (IF carry = 0 THEN <<>> ELSE <<carry>>)
  ELSE LET t == Head(a) * k + carry
       IN  <<t % Limb>> \o BigMulSmallC(Tail(a), k, t \div Limb)

\* a * k for 0 <= k < Limb
BigMulSmall(a, k) == BigStrip(BigMulSmallC(a, k, 0))

\* a * b, limb by limb of b
RECURSIVE BigMulBy(_, _)
BigMulBy(a, b) ==
  IF b = <<>> THEN <<>>
  ELSE LET rest == BigMulBy(a, Tail(b))
       IN  BigAddC(BigMulSmallC(a, Head(b), 0),
                   IF rest = <<>> THEN <<>> ELSE <<0>> \o rest, 0)

BigMul(a, b) ==
  IF a = <<>> \/ b = <<>> THEN <<>>
  ELSE BigStrip(IF Len(a) < Len(b) THEN BigMulBy(b, a) ELSE BigMulBy(a, b))

\* floor(a / 2^s)
BigShr(a, s) ==
  LET k == s \div LimbBits
      r == s % LimbBits
      n == Len(a) - k
  IN  IF n <= 0 THEN <<>>
      ELSE BigStrip([i \in 1..n |->
             (a[i + k] \div 2^r)
             + (IF i < n THEN (a[i + k + 1] % 2^r) * 2^(LimbBits - r) ELSE 0)])

\* a * 2^s
BigShl(a, s) ==
  IF a = <<>> THEN <<>>
  ELSE [i \in 1..(s \div LimbBits) |-> 0] \o BigMulSmall(a, 2^(s % LimbBits))

\* bit i of a
BigBit(a, i) ==
  LET j == i \div LimbBits + 1
  IN  IF j > Len(a) THEN 0 ELSE (a[j] \div 2^(i % LimbBits)) % 2

\* a mod 2^s = 0
BigLowZero(a, s) ==
  LET k == s \div LimbBits
  IN  /\ \A j \in 1..k : j > Len(a) \/ a[j] = 0
      /\ k + 1 > Len(a) \/ a[k + 1] % 2^(s % LimbBits) = 0

\* the number of bits of a natural below Limb
BitLen(x) == IF x = 0 THEN 0 ELSE CHOOSE k \in 1..LimbBits : 2^(k - 1) <= x /\ x < 2^k

BigBitLen(a) == IF a = <<>> THEN 0 ELSE (Len(a) - 1) * LimbBits + BitLen(a[Len(a)])

\* the number of trailing zero bits of a # 0
BigTz(a) ==
  LET j == CHOOSE i \in 1..Len(a) : a[i] # 0 /\ \A h \in 1..(i - 1) : a[h] = 0
      t == CHOOSE u \in 0..(LimbBits - 1) : a[j] % 2^(u + 1) = 2^u
  IN  (j - 1) * LimbBits + t

\* <<floor(a / d), a mod d>> for 0 < d <= Limb, most significant limb first
RECURSIVE BigDivSmallR(_, _, _)
BigDivSmallR(a, d, rem) ==
  IF a = <<>> THEN <<<<>>, rem>>
  ELSE LET t    == rem * Limb + a[Len(a)]
           rest == BigDivSmallR(SubSeq(a, 1, Len(a) - 1), d, t % d)
       IN  <<rest[1] \o <<t \div d>>, rest[2]>>

BigDivSmall(a, d) ==
  LET qr == BigDivSmallR(a, d, 0) IN <<BigStrip(qr[1]), qr[2]>>

(***************************************************************************)
(* float: [s |-> 1 or -1, m |-> Big, e |-> Int], value s * m * 2^e, in     *)
(* canonical form: m odd, or m = 0 with s = 1 and e = 0.                   *)
(***************************************************************************)
FZero == [s |-> 1, m |-> <<>>, e |-> 0]

FCanon(s, m, e) ==
  IF m = <<>> THEN FZero
  ELSE LET t == BigTz(m) IN [s |-> s, m |-> BigShr(m, t), e |-> e + t]

\* s * m * 2^e rounded to a significand of p bits, ties to even
FRound(s, m, e, p) ==
  LET len == BigBitLen(m)
      d   == len - p
  IN  IF d <= 0 THEN FCanon(s, m, e)
      ELSE LET q    == BigShr(m, d)
               half == BigBit(m, d - 1) = 1
               low  == ~BigLowZero(m, d - 1)
               up   == half /\ (low \/ BigBit(q, 0) = 1)
           IN  FCanon(s, IF up THEN BigAdd(q, <<1>>) ELSE q, e + d)

\* int -> float
FFromInt(n, p) ==
  IF n < 0 THEN FRound(-1, BigFromInt(-n), 0, p) ELSE FRound(1, BigFromInt(n), 0, p)

\* The float nearest to the rational num / den (num >= 0, 0 < den <= Limb):
\* what a decimal literal of that value denotes.
FFromRatio(num, den, p) ==
  LET k  == p + 2 + BitLen(den)
      qr == BigDivSmall(BigShl(BigFromInt(num), k), den)
      m  == BigAdd(BigShl(qr[1], 1), IF qr[2] = 0 THEN <<>> ELSE <<1>>)
  IN  FRound(1, m, 0 - k - 1, p)

\* x * y
FMul(x, y, p) == FRound(x.s * y.s, BigMul(x.m, y.m), x.e + y.e, p)

\* x / 2^k: exact, the significand is unchanged
FDivPow2(x, k) == IF x.m = <<>> THEN FZero ELSE [x EXCEPT !.e = x.e - k]

\* int(x): truncation toward zero
FToInt(x) ==
  x.s * BigToInt(IF x.e >= 0 THEN BigShl(x.m, x.e) ELSE BigShr(x.m, 0 - x.e))

(***************************************************************************)
(* Python's int operators on naturals.                                     *)
(***************************************************************************)
\* a & b
RECURSIVE BitAnd(_, _)
BitAnd(a, b) ==
  IF a = 0 \/ b = 0 THEN 0
  ELSE (a % 2) * (b % 2) + 2 * BitAnd(a \div 2, b \div 2)

\* A slip for a | b: a + b, which differs when a bit of b is already set in a.
BitOr_Add(a, b) == a + b

\* a | b
RECURSIVE BitOr(_, _)
BitOr(a, b) ==
  IF a = 0 THEN b
  ELSE IF b = 0 THEN a
  ELSE (IF a % 2 = 1 \/ b % 2 = 1 THEN 1 ELSE 0) + 2 * BitOr(a \div 2, b \div 2)

\* a & ~b
RECURSIVE BitAndNot(_, _)
BitAndNot(a, b) ==
  IF a = 0 THEN 0
  ELSE (IF a % 2 = 1 /\ b % 2 = 0 THEN 1 ELSE 0) + 2 * BitAndNot(a \div 2, b \div 2)

\* 1 << n
Shl1(n) == 2^n

\* A slip for a >> n: the shift forgotten.
Shr_Forgotten(a, n) == a

\* a >> n
Shr(a, n) == a \div 2^n

(***************************************************************************)
(* Register addresses and constants.                                       *)
(***************************************************************************)
_CONFIG == 0

_SHUNTCAL == 2

_VSHUNT == 4

_VBUS == 5

_DIETEMP == 6

_CURRENT == 7

_ENERGY == 9

_CHARGE == 10

_DIAGALRT == 11

_MFG_UID == 62

_DVC_UID == 63

_INA2XX_DEFAULT_ADDR == 64

(***************************************************************************)
(* _twos_comp: "compute the 2's complement of int value val".              *)
(***************************************************************************)
\* Slips for _twos_comp: the sign bit taken as bit `bits`, and the one's
\* complement (2^bits - 1 subtracted).
_twos_comp_SignBit(val, bits) ==
  IF BitAnd(val, Shl1(bits)) # 0 THEN val - Shl1(bits) ELSE val

_twos_comp_OnesComp(val, bits) ==
  IF BitAnd(val, Shl1(bits - 1)) # 0 THEN val - (Shl1(bits) - 1) ELSE val

_twos_comp(val, bits) ==
  IF BitAnd(val, Shl1(bits - 1)) # 0 THEN val - Shl1(bits) ELSE val

(***************************************************************************)
(* int.from_bytes(tmp, 'big') and int.to_bytes(2, 'big').                  *)
(***************************************************************************)
\* A slip for int.from_bytes(tmp, 'big'): 'little'.
RECURSIVE from_bytes_Little(_)
from_bytes_Little(tmp) ==
  IF tmp = <<>> THEN 0 ELSE Head(tmp) + 256 * from_bytes_Little(Tail(tmp))

RECURSIVE from_bytes(_)
from_bytes(tmp) ==
  IF tmp = <<>> THEN 0
  ELSE from_bytes(SubSeq(tmp, 1, Len(tmp) - 1)) * 256 + tmp[Len(tmp)]

\* The same on a value of more than 31 bits: the result is a Big.
RECURSIVE big_from_bytes(_)
big_from_bytes(tmp) ==
  IF tmp = <<>> THEN <<>>
  ELSE BigAdd(BigMulSmall(big_from_bytes(SubSeq(tmp, 1, Len(tmp) - 1)), 256),
              BigFromInt(tmp[Len(tmp)]))

\* Whether register_value.to_bytes(2, 'big') raises OverflowError.  CPython and
\* MicroPython from 1.24 raise when the value does not fit the two bytes;
\* earlier MicroPython copies the low bytes.  strict is the build's behaviour.
to_bytes_raises(register_value, strict) ==
  strict /\ (register_value < 0 \/ register_value >= Shl1(16))

\* A slip for to_bytes: a value that does not fit saturates at 0xFFFF.
to_bytes_Saturate(register_value) ==
  IF register_value >= Shl1(16) THEN <<255, 255>>
  ELSE <<(register_value \div 256) % 256, register_value % 256>>

\* The two bytes, most significant first, when it does not raise.
to_bytes(register_value) ==
  <<(register_value \div 256) % 256, register_value % 256>>

(***************************************************************************)
(* State.                                                                  *)
(*   prec, strict     the build: the float's significand width (53: a      *)
(*                    double-precision build and CPython, 24: a            *)
(*                    single-precision build) and whether int.to_bytes     *)
(*                    raises on overflow                                   *)
(*   _current_lsb, _adc_range   the driver's fields                        *)
(*   written          the calibration register SHUNT_CAL as the device     *)
(*                    holds it: the bytes of the last write to it that the *)
(*                    transport completed (<<>>: none yet)                 *)
(*   op, args         the last method called and its arguments             *)
(*   txlog            the transport transactions that call issued, in      *)
(*                    order, each with whether it completed                *)
(*   ret              how the call ended: the exception raised ("none":    *)
(*                    it returned) and the value returned                  *)
(*   tc_bits, tc_x, tc_val, tc_ret   the sweep of _twos_comp (SpecPure)    *)
(***************************************************************************)
VARIABLES prec, strict, _current_lsb, _adc_range, written, op, args, txlog, ret,
          tc_bits, tc_x, tc_val, tc_ret

vars == <<prec, strict, _current_lsb, _adc_range, written, op, args, txlog, ret,
          tc_bits, tc_x, tc_val, tc_ret>>

driver == <<prec, strict, _current_lsb, _adc_range, written, op, args, txlog, ret>>

sweep == <<tc_bits, tc_x, tc_val, tc_ret>>

_address == _INA2XX_DEFAULT_ADDR

(***************************************************************************)
(* The environment: what the device puts on the wire, and what a caller    *)
(* passes.  Probe widens the windows around the corner values.             *)
(***************************************************************************)
Probe == 1

\* What a transaction that completes (ok) may return, out of reads; one that
\* fails returns nothing.
Returned(reads, ok) == IF ok THEN reads ELSE {<<>>}

\* Whether the transaction after one that completed (ok) completes; after a
\* failed one there is none.
Then(ok) == IF ok THEN BOOLEAN ELSE {FALSE}

Near(c, max) == {v \in (c - Probe)..(c + Probe) : 0 <= v /\ v <= max}

\* v as n bytes, most significant first
RECURSIVE Wire(_, _)
Wire(v, n) == IF n = 0 THEN <<>> ELSE Wire(v \div 256, n - 1) \o <<v % 256>>

\* CONFIG: 0x0000, 0x0010 (ADCRANGE alone), 0xFFEF (all but ADCRANGE) and 0xFFFF
ConfigValues ==
  {0, 16, 65519, 65535}

ConfigReads == {Wire(v, 2) : v \in ConfigValues}

\* the 24-bit result registers: zero, the spec's 0x000190, the sign boundary and
\* the top (reserved low nibble set)
Raw24Values ==
  {0, 400, 2^24 - 1} \cup Near(2^23, 2^24 - 1)

Raw24Reads == {Wire(v, 3) : v \in Raw24Values}

\* DIETEMP: the spec's 0x0080 and 0xFF80, and the sign boundary
Raw16Values ==
  {128, 65408} \cup Near(2^15, 2^16 - 1)

Raw16Reads == {Wire(v, 2) : v \in Raw16Values}

\* the identification and flag registers: TI's identifiers and the extremes
IdReads == {<<84, 73>>, <<2, 40>>}

\* calibrate_shunt's arguments, as the decimal literals num/den a caller writes
\* (10.24 A, 0.002 ohm), (10.24 A, 0.5 ohm: the constant overflows 16 bits) and
\* (1 A, 0.0015 ohm: the constant has a fractional part)
CalArgs ==
  {<<<<1024, 100>>, <<2, 1000>>>>, <<<<1024, 100>>, <<1, 2>>>>, <<<<1, 1>>, <<15, 10000>>>>}

\* set_adc_range's argument
RangeArgs == (0 - 1)..Probe

Precs == {24, 53}

(***************************************************************************)
(* The transport: self._i2c.readfrom_mem and self._i2c.writeto_mem.  ok    *)
(* says whether the transaction completes; when it does not, it raises     *)
(* OSError, which no method of the driver catches.                         *)
(***************************************************************************)
readfrom_mem(addr, register, size, tmp, ok) ==
  [kind |-> "read", addr |-> addr, reg |-> register, n |-> size,
   data |-> IF ok THEN tmp ELSE <<>>, ok |-> ok]

writeto_mem(addr, register, register_bytes, ok) ==
  [kind |-> "write", addr |-> addr, reg |-> register, n |-> Len(register_bytes),
   data |-> register_bytes, ok |-> ok]

\* written, after the transactions txs
RECURSIVE Apply(_, _)
Apply(w, txs) ==
  IF txs = <<>> THEN w
  ELSE LET t == Head(txs)
       IN  Apply(IF t.kind = "write" /\ t.ok /\ t.reg \in DOMAIN w
                 THEN [w EXCEPT ![t.reg] = t.data] ELSE w,
                 Tail(txs))

(***************************************************************************)
(* _read_register and _write_register16.  A call's outcome is the          *)
(* transactions it issued, the exception it raised ("none": it returned)   *)
(* and the value it returned.                                              *)
(***************************************************************************)
_read_register(register, size, tmp, ok) ==
  [tx  |-> <<readfrom_mem(_address, register, size, tmp, ok)>>,
   exc |-> IF ok THEN "none" ELSE "OSError",
   val |-> IF ok THEN from_bytes(tmp) ELSE 0]

_write_register16(register, register_value, ok) ==
  IF to_bytes_raises(register_value, strict)
  THEN [tx |-> <<>>, exc |-> "OverflowError", val |-> "None"]
  ELSE [tx  |-> <<writeto_mem(_address, register, to_bytes(register_value), ok)>>,
        exc |-> IF ok THEN "none" ELSE "OSError",
        val |-> "None"]

\* The 40-bit read of an accumulator register (ENERGY, CHARGE): 4 high-order
\* bytes at register, 1 low-order byte at register + 4, combined.
_read_register40(register, tmp4, tmp1, ok4, ok1) ==
  LET hi == readfrom_mem(_address, register, 4, tmp4, ok4)
      lo == readfrom_mem(_address, register + 4, 1, tmp1, ok1)
  IN  IF ~ok4 THEN [tx |-> <<hi>>, exc |-> "OSError", val |-> <<>>]
      ELSE IF ~ok1 THEN [tx |-> <<hi, lo>>, exc |-> "OSError", val |-> <<>>]
      ELSE [tx |-> <<hi, lo>>, exc |-> "none",
            val |-> BigAdd(BigMulSmall(big_from_bytes(tmp4), 256), big_from_bytes(tmp1))]

\* The end of a call: what it leaves in the state.
Return(name, a, txs, exc, val, lsb, range) ==
  /\ op' = name
  /\ args' = a
  /\ txlog' = txs
  /\ ret' = [exc |-> exc, val |-> IF exc = "none" THEN val ELSE "None"]
  /\ written' = Apply(written, txs)
  /\ _current_lsb' = lsb
  /\ _adc_range' = range
  /\ UNCHANGED <<prec, strict, sweep>>

(***************************************************************************)
(* __init__                                                                *)
(***************************************************************************)
DriverInit ==
  /\ prec \in Precs
  /\ strict \in BOOLEAN
  /\ _current_lsb = FDivPow2(FFromInt(10, prec), 19)
  /\ _adc_range = 0
  /\ written = [r \in {_SHUNTCAL} |-> <<>>]
  /\ op = "__init__"
  /\ args = <<>>
  /\ txlog = <<>>
  /\ ret = [exc |-> "none", val |-> "None"]

(***************************************************************************)
(* The methods.                                                            *)
(***************************************************************************)
\* The float literals of the source and of the callers, num/den, as each build
\* reads them.
Literals == {<<1, 5120>>, <<1, 128>>} \cup {a[1] : a \in CalArgs} \cup {a[2] : a \in CalArgs}

Literal == [p \in Precs |-> [q \in Literals |-> FFromRatio(q[1], q[2], p)]]

\* config | (1 << bit), written back: reset_all (bit 15), reset_energy (bit 14)
reset_all ==
  \E okr \in BOOLEAN : \E tmp \in Returned(ConfigReads, okr), okw \in Then(okr) :
    LET rd     == _read_register(_CONFIG, 2, tmp, okr)
        config == BitOr(rd.val, Shl1(15))
        wr     == _write_register16(_CONFIG, config, okw)
    IN  IF rd.exc # "none"
        THEN Return("reset_all", <<>>, rd.tx, rd.exc, "None", _current_lsb, _adc_range)
        ELSE Return("reset_all", <<>>, rd.tx \o wr.tx, wr.exc, "None",
                    _current_lsb, _adc_range)

reset_energy ==
  \E okr \in BOOLEAN : \E tmp \in Returned(ConfigReads, okr), okw \in Then(okr) :
    LET rd     == _read_register(_CONFIG, 2, tmp, okr)
        config == BitOr(rd.val, Shl1(14))
        wr     == _write_register16(_CONFIG, config, okw)
    IN  IF rd.exc # "none"
        THEN Return("reset_energy", <<>>, rd.tx, rd.exc, "None", _current_lsb, _adc_range)
        ELSE Return("reset_energy", <<>>, rd.tx \o wr.tx, wr.exc, "None",
                    _current_lsb, _adc_range)

\* the literal 13107.2e6 = 131072 * 10^5
ShuntCalFactor(p) == FRound(1, BigMul(BigFromInt(131072), BigFromInt(100000)), 0, p)

\* A slip for shunt_cal: the range's factor 4 forgotten.
shunt_cal_Unscaled(lsb, shunt_ohms, range, p) ==
  FMul(FMul(ShuntCalFactor(p), lsb, p), shunt_ohms, p)

\* shunt_cal as calibrate_shunt computes it from the new current_lsb
shunt_cal(lsb, shunt_ohms, range, p) ==
  LET c == FMul(FMul(ShuntCalFactor(p), lsb, p), shunt_ohms, p)
  IN  IF range = 1 THEN FMul(c, FFromInt(4, p), p) ELSE c

calibrate_shunt ==
  \E a \in CalArgs, okw \in BOOLEAN :
    LET max_current == Literal[prec][a[1]]
        shunt_ohms  == Literal[prec][a[2]]
        lsb         == FDivPow2(max_current, 19)
        cal         == shunt_cal(lsb, shunt_ohms, _adc_range, prec)
        wr          == _write_register16(_SHUNTCAL, FToInt(cal), okw)
    IN  Return("calibrate_shunt", <<max_current, shunt_ohms>>, wr.tx, wr.exc, "None",
               lsb, _adc_range)

\* Slips for set_adc_range: the argument recorded as it is, and the calibration
\* register cleared with the range.
set_adc_range_RecordsArg ==
  \E range \in RangeArgs, okr \in BOOLEAN :
   \E tmp \in Returned(ConfigReads, okr), okw \in Then(okr) :
    LET rd     == _read_register(_CONFIG, 2, tmp, okr)
        config == IF range # 0 THEN BitOr(rd.val, Shl1(4)) ELSE BitAndNot(rd.val, Shl1(4))
        wr     == _write_register16(_CONFIG, config, okw)
    IN  IF rd.exc # "none"
        THEN Return("set_adc_range", <<range>>, rd.tx, rd.exc, "None",
                    _current_lsb, _adc_range)
        ELSE Return("set_adc_range", <<range>>, rd.tx \o wr.tx, wr.exc, "None",
                    _current_lsb, range)

set_adc_range_ClearsCal ==
  \E range \in RangeArgs, okr \in BOOLEAN :
   \E tmp \in Returned(ConfigReads, okr), okw \in Then(okr) :
    LET rd     == _read_register(_CONFIG, 2, tmp, okr)
        config == IF range # 0 THEN BitOr(rd.val, Shl1(4)) ELSE BitAndNot(rd.val, Shl1(4))
        new    == IF range # 0 THEN 1 ELSE 0
        wr     == _write_register16(_CONFIG, config, okw)
        cal    == _write_register16(_SHUNTCAL, 0, okw)
    IN  IF rd.exc # "none"
        THEN Return("set_adc_range", <<range>>, rd.tx, rd.exc, "None",
                    _current_lsb, _adc_range)
        ELSE Return("set_adc_range", <<range>>, rd.tx \o wr.tx \o cal.tx, wr.exc, "None",
                    _current_lsb, new)

set_adc_range ==
  \E range \in RangeArgs, okr \in BOOLEAN :
   \E tmp \in Returned(ConfigReads, okr), okw \in Then(okr) :
    LET rd     == _read_register(_CONFIG, 2, tmp, okr)
        config == IF range # 0 THEN BitOr(rd.val, Shl1(4)) ELSE BitAndNot(rd.val, Shl1(4))
        new    == IF range # 0 THEN 1 ELSE 0
        wr     == _write_register16(_CONFIG, config, okw)
    IN  IF rd.exc # "none"
        THEN Return("set_adc_range", <<range>>, rd.tx, rd.exc, "None",
                    _current_lsb, _adc_range)
        ELSE Return("set_adc_range", <<range>>, rd.tx \o wr.tx, wr.exc, "None",
                    _current_lsb, new)

\* the literal 195.3125e-6 = 1/5120
VbusLsb(p) == Literal[p][<<1, 5120>>]

\* the literal 7.8125e-3 = 1/128
DietempLsb(p) == Literal[p][<<1, 128>>]

get_current ==
  \E okr \in BOOLEAN : \E tmp \in Returned(Raw24Reads, okr) :
    LET rd      == _read_register(_CURRENT, 3, tmp, okr)
        current == FMul(FFromInt(_twos_comp(Shr(rd.val, 4), 20), prec), _current_lsb, prec)
    IN  Return("get_current", <<>>, rd.tx, rd.exc, current, _current_lsb, _adc_range)

get_voltage ==
  \E okr \in BOOLEAN : \E tmp \in Returned(Raw24Reads, okr) :
    LET rd      == _read_register(_VBUS, 3, tmp, okr)
        voltage == FMul(FFromInt(_twos_comp(Shr(rd.val, 4), 20), prec), VbusLsb(prec), prec)
    IN  Return("get_voltage", <<>>, rd.tx, rd.exc, voltage, _current_lsb, _adc_range)

get_vshunt ==
  \E okr \in BOOLEAN : \E tmp \in Returned(Raw24Reads, okr) :
    LET rd == _read_register(_VSHUNT, 3, tmp, okr)
    IN  Return("get_vshunt", <<>>, rd.tx, rd.exc, _twos_comp(Shr(rd.val, 4), 20),
               _current_lsb, _adc_range)

get_die_temp ==
  \E okr \in BOOLEAN : \E tmp \in Returned(Raw16Reads, okr) :
    LET rd   == _read_register(_DIETEMP, 2, tmp, okr)
        temp == FMul(FFromInt(_twos_comp(rd.val, 16), prec), DietempLsb(prec), prec)
    IN  Return("get_die_temp", <<>>, rd.tx, rd.exc, temp, _current_lsb, _adc_range)

\* the raw pass-through reads: the bytes, not decoded
PassThrough(name, register) ==
  \E okr \in BOOLEAN : \E tmp \in Returned(IdReads, okr) :
    LET rd == readfrom_mem(_address, register, 2, tmp, okr)
    IN  Return(name, <<>>, <<rd>>, IF okr THEN "none" ELSE "OSError", tmp,
               _current_lsb, _adc_range)

\* a direct call of _read_register on a 2-byte or a 3-byte register
call_read_register ==
  \E r \in {<<_CONFIG, 2, ConfigReads>>, <<_VBUS, 3, Raw24Reads>>}, okr \in BOOLEAN :
   \E tmp \in Returned(r[3], okr) :
    LET rd == _read_register(r[1], r[2], tmp, okr)
    IN  Return("_read_register", <<r[1], r[2]>>, rd.tx, rd.exc, rd.val,
               _current_lsb, _adc_range)

get_diagnostic_flags == PassThrough("get_diagnostic_flags", _DIAGALRT)

get_manufacturer_id == PassThrough("get_manufacturer_id", _MFG_UID)

get_device_id == PassThrough("get_device_id", _DVC_UID)

\* what the device puts on the wire for an accumulator register
Acc4Reads == {<<0, 0, 1, 144>>, <<255, 255, 255, 255>>}

Acc1Reads == {<<v>> : v \in Near(255, 255)}

\* a read of a 40-bit accumulator register
read_accumulator ==
  \E register \in {_ENERGY, _CHARGE}, ok4 \in BOOLEAN :
   \E tmp4 \in Returned(Acc4Reads, ok4), ok1 \in Then(ok4) :
   \E tmp1 \in Returned(Acc1Reads, ok1) :
    LET rd == _read_register40(register, tmp4, tmp1, ok4, ok1)
    IN  Return("read_accumulator", <<register>>, rd.tx, rd.exc, rd.val,
               _current_lsb, _adc_range)

(***************************************************************************)
(* The driver's specification: any sequence of method calls.               *)
(***************************************************************************)
SweepIdle == tc_bits = 16 /\ tc_x = 0 /\ tc_val = 0 /\ tc_ret = 0

Init == DriverInit /\ SweepIdle

Next ==
  \/ reset_all
  \/ reset_energy
  \/ calibrate_shunt
  \/ set_adc_range
  \/ get_current
  \/ get_voltage
  \/ get_vshunt
  \/ get_die_temp
  \/ get_diagnostic_flags
  \/ get_manufacturer_id
  \/ get_device_id
  \/ read_accumulator
  \/ call_read_register

Spec == Init /\ [][Next]_vars

(***************************************************************************)
(* The sweep of _twos_comp: every signed x of the width, encoded as the    *)
(* device does (x mod 2^bits) and decoded by _twos_comp.                   *)
(***************************************************************************)
Widths == {16, 20}

Encode(x, bits) == x % 2^bits

SweepInit ==
  /\ tc_bits \in Widths
  /\ tc_x = 0 - 2^(tc_bits - 1)
  /\ tc_val = Encode(tc_x, tc_bits)
  /\ tc_ret = _twos_comp(tc_val, tc_bits)

SweepStep ==
  /\ tc_x < 2^(tc_bits - 1) - 1
  /\ tc_x' = tc_x + 1
  /\ tc_val' = Encode(tc_x', tc_bits)
  /\ tc_ret' = _twos_comp(tc_val', tc_bits)
  /\ UNCHANGED <<tc_bits, driver>>

InitPure == DriverInit /\ prec = 53 /\ strict /\ SweepInit

SpecPure == InitPure /\ [][SweepStep]_vars

(***************************************************************************)
(* The properties.  They read the bytes on the wire with arithmetic of     *)
(* their own, not with the driver's operators.                             *)
(***************************************************************************)
U16(b) == b[1] * 256 + b[2]

U24(b) == b[1] * 65536 + b[2] * 256 + b[3]

Signed(n, bits) == IF n >= 2^(bits - 1) THEN n - 2^bits ELSE n

Count20(b) == Signed(U24(b) \div 16, 20)

Count16(b) == Signed(U16(b), 16)

HasBit(v, k) == (v \div 2^k) % 2 = 1

WithBit(v, k) == IF HasBit(v, k) THEN v ELSE v + 2^k

WithoutBit(v, k) == IF HasBit(v, k) THEN v - 2^k ELSE v

IsBytes(b, n) == Len(b) = n /\ \A i \in 1..n : b[i] \in 0..255

IsRead(t, register, size) ==
  t.kind = "read" /\ t.addr = 64 /\ t.reg = register /\ t.n = size
  /\ (t.ok => IsBytes(t.data, size))

IsWrite16(t, register, value) ==
  t.kind = "write" /\ t.addr = 64 /\ t.reg = register /\ t.n = 2
  /\ IsBytes(t.data, 2) /\ U16(t.data) = value

Lit(num, den) == Literal[prec][<<num, den>>]

\* the n base-256 digits of the Big v, most significant first
RECURSIVE Digits256(_, _)
Digits256(v, n) ==
  IF n = 0 THEN <<>>
  ELSE LET qr == BigDivSmall(v, 256) IN Digits256(qr[1], n - 1) \o <<qr[2]>>

\* C1: for every unsigned v of 16 bits, _twos_comp(v, 16) is v when v < 2^15
\* and v - 2^16 otherwise; for every unsigned v of 20 bits, _twos_comp(v, 20) is
\* v when v < 2^19 and v - 2^20 otherwise.
C1_TwosCompDecodes ==
  /\ tc_val \in 0..(2^tc_bits - 1)
  /\ tc_ret = IF tc_val < 2^(tc_bits - 1) THEN tc_val ELSE tc_val - 2^tc_bits

C1_Witness == tc_bits = 16 /\ tc_val = 2^15 + 1 /\ tc_ret = 1 - 2^15

\* C2: every signed x of 20 bits (of 16 bits), encoded as the bit pattern
\* x mod 2^20 (x mod 2^16) and decoded by _twos_comp, comes back as x.
C2_RoundTrip ==
  /\ 0 - 2^(tc_bits - 1) <= tc_x /\ tc_x <= 2^(tc_bits - 1) - 1
  /\ tc_ret = tc_x

C2_Witness ==
  tc_bits = 20 /\ tc_x = 3 - 2^19 /\ tc_val = 2^19 + 3 /\ tc_ret = 3 - 2^19

\* C3: calibrate_shunt(10.24, 0.002) sets current_lsb to 10.24 / 2^19 and
\* writes 512 to SHUNT_CAL (0x02) under adc_range 0 and 2048, four times as
\* much, under adc_range 1; the value written is the constant truncated toward
\* zero: 37.5 (1 A, 0.0015 ohm) is written as 37, and 150 under adc_range 1.
C3_Calibration ==
  /\ (op = "calibrate_shunt" /\ args = <<Lit(1024, 100), Lit(2, 1000)>>) =>
       /\ FMul(_current_lsb, FFromInt(2^19, prec), prec) = Lit(1024, 100)
       /\ Len(txlog) = 1
       /\ IsWrite16(txlog[1], 2, IF _adc_range = 1 THEN 2048 ELSE 512)
  /\ (op = "calibrate_shunt" /\ args = <<Lit(1, 1), Lit(15, 10000)>>) =>
       /\ Len(txlog) = 1
       /\ IsWrite16(txlog[1], 2, IF _adc_range = 1 THEN 150 ELSE 37)

C3_Witness ==
  /\ op = "calibrate_shunt" /\ args = <<Lit(1024, 100), Lit(2, 1000)>>
  /\ _adc_range = 1 /\ ret.exc = "none" /\ written[2] = <<8, 0>>

\* C4: reset_all issues one 2-byte read of CONFIG (0x00), then one write to
\* CONFIG of the value read with bit 15 set and every other bit unchanged, and
\* nothing else; reset_energy does the same with bit 14.
C4_Reset ==
  \A b \in {14, 15} :
    (op = (IF b = 15 THEN "reset_all" ELSE "reset_energy") /\ txlog[1].ok) =>
      /\ Len(txlog) = 2
      /\ IsRead(txlog[1], 0, 2)
      /\ IsWrite16(txlog[2], 0, WithBit(U16(txlog[1].data), b))
      /\ txlog[2].data[2] = txlog[1].data[2]
      /\ txlog[2].data[1] % 2^(b - 8) = txlog[1].data[1] % 2^(b - 8)

C4_Witness ==
  /\ op = "reset_energy" /\ ret.exc = "none"
  /\ txlog[1].data = <<0, 16>> /\ txlog[2].data = <<64, 16>>

\* C5: set_adc_range(range) writes back to CONFIG the value read with bit 4 set
\* iff range # 0 and the other bits unchanged, and records adc_range = 1 iff
\* range # 0 (else 0); adc_range is always 0 or 1, and after a completed
\* set_adc_range it is bit 4 of the value just written to CONFIG.
C5_AdcRange ==
  /\ _adc_range \in {0, 1}
  /\ (op = "set_adc_range" /\ txlog[1].ok) =>
       /\ Len(txlog) = 2
       /\ IsRead(txlog[1], 0, 2)
       /\ IsWrite16(txlog[2], 0, IF args[1] # 0 THEN WithBit(U16(txlog[1].data), 4)
                                  ELSE WithoutBit(U16(txlog[1].data), 4))
       /\ _adc_range = (IF args[1] # 0 THEN 1 ELSE 0)
       /\ ret.exc = "none" => _adc_range = (U16(txlog[2].data) \div 16) % 2

C5_Witness ==
  /\ op = "set_adc_range" /\ args = <<0 - 1>> /\ ret.exc = "none"
  /\ txlog[1].data = <<255, 239>> /\ txlog[2].data = <<255, 255>> /\ _adc_range = 1

\* C6: set_adc_range never writes SHUNT_CAL and leaves current_lsb unchanged,
\* and no operation but calibrate_shunt changes current_lsb: after a
\* calibration under one range and set_adc_range to the other, SHUNT_CAL still
\* holds the constant of the old range.
C6_NoRecalibration ==
  [][/\ op' = "set_adc_range" =>
          /\ \A i \in 1..Len(txlog') : txlog'[i].reg # 2
          /\ written' = written
          /\ _current_lsb' = _current_lsb
     /\ _current_lsb' # _current_lsb => op' = "calibrate_shunt"
     /\ written' # written => op' = "calibrate_shunt"]_vars

\* 512 is the constant of (10.24 A, 0.002 ohm) under range 0; the range is now 1
C6_Witness ==
  /\ op = "set_adc_range" /\ ret.exc = "none" /\ _adc_range = 1
  /\ written[2] = <<2, 0>>
  /\ _current_lsb = FDivPow2(Lit(1024, 100), 19)

\* calibrate_shunt(10.24, 0.5): the constant is 128000 under range 0 and 512000
\* under range 1, neither of which fits 16 bits
Overflowing == op = "calibrate_shunt" /\ args = <<Lit(1024, 100), Lit(1, 2)>>

Truncated ==
  /\ ret.exc # "OverflowError"
  /\ Len(txlog) = 1
  /\ IsWrite16(txlog[1], 2, (IF _adc_range = 1 THEN 512000 ELSE 128000) % 65536)

C9_Accessors ==
  /\ op = "get_vshunt" =>
       /\ Len(txlog) = 1 /\ IsRead(txlog[1], 4, 3)
       /\ ret.exc = "none" =>
            /\ ret.val = Count20(txlog[1].data)
            /\ 0 - 2^19 <= ret.val /\ ret.val <= 2^19 - 1
  /\ op = "get_current" =>
       /\ Len(txlog) = 1 /\ IsRead(txlog[1], 7, 3)
       /\ ret.exc = "none" =>
            ret.val = FMul(FFromInt(Count20(txlog[1].data), prec), _current_lsb, prec)
  /\ op = "get_voltage" =>
       /\ Len(txlog) = 1 /\ IsRead(txlog[1], 5, 3)
       /\ ret.exc = "none" =>
            /\ ret.val = FMul(FFromInt(Count20(txlog[1].data), prec), Lit(1, 5120), prec)
            /\ txlog[1].data = <<0, 1, 144>> =>
                 /\ Count20(txlog[1].data) = 25
                 /\ FToInt(FMul(ret.val, FFromInt(1000000, prec), prec)) = 4882
  /\ op = "get_die_temp" =>
       /\ Len(txlog) = 1 /\ IsRead(txlog[1], 6, 2)
       /\ ret.exc = "none" =>
            /\ ret.val = FMul(FFromInt(Count16(txlog[1].data), prec), Lit(1, 128), prec)
            /\ txlog[1].data = <<0, 128>> => ret.val = [s |-> 1, m |-> <<1>>, e |-> 0]
            /\ txlog[1].data = <<255, 128>> => ret.val = [s |-> 0 - 1, m |-> <<1>>, e |-> 0]

C9_Witness ==
  /\ op = "get_die_temp" /\ ret.exc = "none"
  /\ txlog[1].data = <<255, 128>> /\ ret.val = [s |-> 0 - 1, m |-> <<1>>, e |-> 0]

\* C10: when a transport transaction fails inside an operation, the failure
\* reaches the caller, the operation issues no further transaction, and
\* current_lsb and adc_range hold the values they had before the operation
\* started.
C10_FailureLeavesFields ==
  [][ret'.exc = "OSError" =>
       /\ Len(txlog') >= 1
       /\ ~txlog'[Len(txlog')].ok
       /\ \A i \in 1..(Len(txlog') - 1) : txlog'[i].ok
       /\ _current_lsb' = _current_lsb
       /\ _adc_range' = _adc_range]_vars

=============================================================================
